---- MODULE Spec2Model ----
(***************************************************************************)
(* Qutrit quantum kernels (Iris, Glass, Seeds, Wine notebooks).            *)
(*                                                                         *)
(* The notebooks compute with numpy complex floats.  The model computes    *)
(* the same expressions exactly, in the ring of Laurent polynomials in     *)
(* e^i (e^{ik}, k an integer, are linearly independent over the algebraic  *)
(* numbers) with coefficients in Q(i, sqrt 3):                             *)
(*   - a coefficient is <<a, b, c, d, n>> = (a + b*sqrt3 + i(c+d*sqrt3))/n *)
(*     in lowest terms, n > 0;                                             *)
(*   - a number is a function from exponents k to non-zero coefficients,   *)
(*     standing for the sum of coefficient[k] * e^{ik}.                    *)
(* Rounding of float64 is not modelled.  Matrices are sequences of rows,   *)
(* with numpy's shapes: q0 is 3x1, q0.T is 1x3, encoding returns 3x1.      *)
(***************************************************************************)
EXTENDS Integers, Sequences, FiniteSets, TLC

----------------------------------------------------------------------------
(* Coefficients: the field Q(i, sqrt 3) *)

\* f itself, as an explicit table: TLC keeps [x \in S |-> e] unevaluated and
\* recomputes e at every application; f @@ <<>> is the same function with its
\* values computed once
Fix(f) == f @@ <<>>

Abs(n) == IF n < 0 THEN -n ELSE n

RECURSIVE Gcd(_, _)
Gcd(a, b) == IF b = 0 THEN a ELSE Gcd(b, a % b)

\* (a + b*sqrt3 + i(c + d*sqrt3))/n divided through by g > 0, n made positive
CReduce(a, b, c, d, n, g) ==
    IF n < 0
    THEN <<(-a) \div g, (-b) \div g, (-c) \div g, (-d) \div g, (-n) \div g>>
    ELSE <<a \div g, b \div g, c \div g, d \div g, n \div g>>

CNorm(a, b, c, d, n) ==
    CReduce(a, b, c, d, n,
            Gcd(Gcd(Gcd(Abs(a), Abs(b)), Gcd(Abs(c), Abs(d))), Abs(n)))

CZero == <<0, 0, 0, 0, 1>>
COne == <<1, 0, 0, 0, 1>>
CRat(p, q) == CNorm(p, 0, 0, 0, q)

\* x + y, the two summands computed first
CAdd(x, y) ==
    CHOOSE r \in {CNorm(u[1] * v[5] + v[1] * u[5], u[2] * v[5] + v[2] * u[5],
                        u[3] * v[5] + v[3] * u[5], u[4] * v[5] + v[4] * u[5],
                        u[5] * v[5]) : u \in {x}, v \in {y}} : TRUE

CMul(x, y) ==
    CNorm(x[1] * y[1] + 3 * x[2] * y[2] - x[3] * y[3] - 3 * x[4] * y[4],
          x[1] * y[2] + x[2] * y[1] - x[3] * y[4] - x[4] * y[3],
          x[1] * y[3] + x[3] * y[1] + 3 * x[2] * y[4] + 3 * x[4] * y[2],
          x[1] * y[4] + x[4] * y[1] + x[2] * y[3] + x[3] * y[2],
          x[5] * y[5])

CConj(x) == <<x[1], x[2], -x[3], -x[4], x[5]>>

----------------------------------------------------------------------------
(* Numbers: Laurent polynomials in e^i over the coefficients *)

NZero == Fix([k \in {} |-> CZero])
NConst(c) == IF c = CZero THEN NZero ELSE 0 :> c
NGet(x, k) == IF k \in DOMAIN x THEN x[k] ELSE CZero

\* the terms of s with a non-zero coefficient
Prune(s) == Fix([k \in {e \in DOMAIN s : s[e] # CZero} |-> s[k]])

\* the real integer k, the rational p/q, sqrt(3), the imaginary unit 1j
R(k) == NConst(<<k, 0, 0, 0, 1>>)
Q(p, q) == NConst(CRat(p, q))
Sqrt3 == 0 :> <<0, 1, 0, 0, 1>>
InvSqrt3 == 0 :> <<0, 1, 0, 0, 3>>
J == 0 :> <<0, 0, 1, 0, 1>>
MinusJ == 0 :> <<0, 0, -1, 0, 1>>
MinusOne == 0 :> <<-1, 0, 0, 0, 1>>

\* e^{ik}
Cis(k) == k :> COne

NAdd(x, y) ==
    IF DOMAIN x = {} THEN y
    ELSE IF DOMAIN y = {} THEN x
    ELSE Prune(Fix([k \in DOMAIN x \cup DOMAIN y |->
                      CAdd(NGet(x, k), NGet(y, k))]))

SetMin(S) == CHOOSE x \in S : \A y \in S : x <= y
SetMax(S) == CHOOSE x \in S : \A y \in S : x >= y

RECURSIVE ConvSum(_, _, _, _, _)
\* the coefficient of e^{ik} in x*y: the sum over a in lo..hi of x[a]*y[k-a],
\* summed by halves
ConvSum(x, y, k, lo, hi) ==
    CASE \A a \in lo..hi : a \notin DOMAIN x \/ (k - a) \notin DOMAIN y
           -> CZero
      [] lo = hi /\ lo \in DOMAIN x /\ (k - lo) \in DOMAIN y
           -> CMul(x[lo], y[k - lo])
      [] OTHER
           -> CAdd(ConvSum(x, y, k, lo, lo + ((hi - lo) \div 2)),
                   ConvSum(x, y, k, lo + ((hi - lo) \div 2) + 1, hi))

NMul(x, y) ==
    IF DOMAIN x = {} \/ DOMAIN y = {} THEN NZero
    ELSE Prune(Fix([k \in {a + b : a \in DOMAIN x, b \in DOMAIN y} |->
                      ConvSum(x, y, k, SetMin(DOMAIN x), SetMax(DOMAIN x))]))

NNeg(x) == Fix([k \in DOMAIN x |-> <<-x[k][1], -x[k][2], -x[k][3], -x[k][4], x[k][5]>>])
NConj(x) == Fix([k \in {-e : e \in DOMAIN x} |-> CConj(x[-k])])

----------------------------------------------------------------------------
(* Matrices of numbers, with the numpy operations the notebooks use *)

Rows(M) == Len(M)
Cols(M) == Len(M[1])

Zeros(n, m) == Fix([i \in 1..n |-> Fix([j \in 1..m |-> NZero])])
Eye(n) ==
    Fix([i \in 1..n |-> Fix([j \in 1..n |-> IF i = j THEN R(1) ELSE NZero])])

\* Every matrix operation computes its arguments first, as numpy does: Val of
\* a one-element set built over x \in {A} has A computed before the body runs
\* (TLC otherwise computes A where the body first uses it, nested inside).
Val(S) == CHOOSE r \in S : TRUE

\* M.T
T(M) ==
    Val({Fix([j \in 1..Cols(x) |-> Fix([i \in 1..Rows(x) |-> x[i][j]])]) :
         x \in {M}})

\* M.conj()
conj(M) ==
    Val({Fix([i \in 1..Rows(x) |->
                Fix([j \in 1..Cols(x) |-> NConj(x[i][j])])]) : x \in {M}})

\* A + B, A - B and scalar * M
MAdd(A, B) ==
    Val({Fix([i \in 1..Rows(x) |->
                Fix([j \in 1..Cols(x) |-> NAdd(x[i][j], y[i][j])])]) :
         x \in {A}, y \in {B}})
MSub(A, B) ==
    Val({Fix([i \in 1..Rows(x) |->
                Fix([j \in 1..Cols(x) |-> NAdd(x[i][j], NNeg(y[i][j]))])]) :
         x \in {A}, y \in {B}})
MScale(s, M) ==
    Val({Fix([i \in 1..Rows(x) |->
                Fix([j \in 1..Cols(x) |-> NMul(c, x[i][j])])]) :
         c \in {s}, x \in {M}})

\* np.kron(A, B)
kron(A, B) ==
    Val({Fix([r \in 1..(Rows(x) * Rows(y)) |->
                Fix([c \in 1..(Cols(x) * Cols(y)) |->
                       NMul(x[((r - 1) \div Rows(y)) + 1]
                             [((c - 1) \div Cols(y)) + 1],
                            y[((r - 1) % Rows(y)) + 1]
                             [((c - 1) % Cols(y)) + 1])])]) :
         x \in {A}, y \in {B}})

RECURSIVE NSum(_, _, _)
\* the sum of terms[lo], ..., terms[hi], summed by halves
NSum(terms, lo, hi) ==
    IF lo = hi THEN terms[lo]
    ELSE NAdd(NSum(terms, lo, (lo + hi) \div 2),
              NSum(terms, ((lo + hi) \div 2) + 1, hi))

\* the sum over k of A[i][k] * B[k][j]
DotSum(A, B, i, j) ==
    Val({NSum(terms, 1, Cols(A)) :
         terms \in {Fix([k \in 1..Cols(A) |->
                           IF DOMAIN A[i][k] = {} \/ DOMAIN B[k][j] = {}
                           THEN NZero ELSE NMul(A[i][k], B[k][j])])}})

\* np.dot(A, B) for two-dimensional arrays: the matrix product
dot(A, B) ==
    Val({Fix([i \in 1..Rows(x) |->
                Fix([j \in 1..Cols(y) |-> DotSum(x, y, i, j)])]) :
         x \in {A}, y \in {B}})

\* elementwise M**2 and np.real(M)
square(M) ==
    Val({Fix([i \in 1..Rows(x) |->
                Fix([j \in 1..Cols(x) |-> NMul(x[i][j], x[i][j])])]) :
         x \in {M}})
real(M) ==
    Val({Fix([i \in 1..Rows(x) |->
                Fix([j \in 1..Cols(x) |->
                       NMul(Q(1, 2), NAdd(x[i][j], NConj(x[i][j])))])]) :
         x \in {M}})

----------------------------------------------------------------------------
(* scipy.linalg.expm.  Every matrix the notebooks exponentiate is 1j times *)
(* a Hermitian matrix Qm.  When the eigenvalues of Qm are integers in      *)
(* -MaxEig..MaxEig, Sylvester's formula gives the exponential exactly:     *)
(*   expm(1j*Qm) = sum over eigenvalues l of                               *)
(*                 e^{il} * product over eigenvalues m # l of              *)
(*                          (Qm - m*I)/(l - m).                            *)
(* The feature vectors of the model are chosen inside this domain          *)
(* (ExpmExact), on which the formula is the exponential itself.            *)

MaxEig == 4

Minor(M, j) ==
    Val({Fix([r \in 1..(Rows(x) - 1) |->
                Fix([c \in 1..(Rows(x) - 1) |->
                       x[r + 1][IF c < j THEN c ELSE c + 1]])]) : x \in {M}})

RECURSIVE NProd(_, _, _)
\* the product of terms[lo], ..., terms[hi], multiplied by halves
NProd(terms, lo, hi) ==
    IF lo = hi THEN terms[lo]
    ELSE NMul(NProd(terms, lo, (lo + hi) \div 2),
              NProd(terms, ((lo + hi) \div 2) + 1, hi))

IsDiagonal(M) ==
    \A i, j \in 1..Rows(M) : i # j => DOMAIN M[i][j] = {}

RECURSIVE Det(_)
\* the determinant: the product of the diagonal of a diagonal matrix, and
\* otherwise Laplace expansion along the first row
Det(M) ==
    IF Rows(M) = 1 THEN M[1][1]
    ELSE IF IsDiagonal(M)
    THEN Val({NProd(terms, 1, Rows(M)) :
              terms \in {Fix([j \in 1..Rows(M) |-> M[j][j]])}})
    ELSE Val({NSum(terms, 1, Rows(M)) :
              terms \in {Fix([j \in 1..Rows(M) |->
                                IF DOMAIN M[1][j] = {} THEN NZero
                                ELSE NMul(IF j % 2 = 1 THEN M[1][j]
                                          ELSE NNeg(M[1][j]),
                                          Det(Minor(M, j)))])}})

\* Qm - m*I
Shift(Qm, m) ==
    Val({Fix([i \in 1..Rows(x) |->
                Fix([j \in 1..Rows(x) |->
                       IF i = j THEN NAdd(x[i][j], R(-m)) ELSE x[i][j]])]) :
         x \in {Qm}})

Spectrum(Qm) == {l \in (-MaxEig)..MaxEig : Det(Shift(Qm, l)) = NZero}

RECURSIVE ProdOver(_, _, _)
\* product over m in S of (Qm - m*I)/(l - m)
ProdOver(Qm, S, l) ==
    IF S = {} THEN Eye(Rows(Qm))
    ELSE dot(MScale(Q(1, l - (CHOOSE e \in S : TRUE)),
                    Shift(Qm, CHOOSE e \in S : TRUE)),
             ProdOver(Qm, S \ {CHOOSE e \in S : TRUE}, l))

RECURSIVE MSum(_, _)
\* the sum of the matrices terms[l], l in S, the terms computed first
MSum(terms, S) ==
    IF Cardinality(S) = 1 THEN terms[CHOOSE e \in S : TRUE]
    ELSE MAdd(terms[CHOOSE e \in S : TRUE],
              MSum(terms, S \ {CHOOSE e \in S : TRUE}))

\* expm(1j*Qm) for the Hermitian Qm with spectrum Sp: the sum over l in Sp of
\* e^{il} * product over m in Sp, m # l, of (Qm - m*I)/(l - m)
Sylvester(Qm, Sp) ==
    IF Sp = {} THEN Zeros(Rows(Qm), Rows(Qm))
    ELSE Val({MSum(terms, Sp) :
              terms \in {Fix([l \in Sp |->
                                MScale(Cis(l), ProdOver(Qm, Sp \ {l}, l))])}})
ExpmI(Qm) == Sylvester(Qm, Spectrum(Qm))

\* the exponential cut after its linear term: I + S
expm_first_order(S) == MAdd(Eye(Rows(S)), S)
expm(S) == Val({ExpmI(Qm) : Qm \in {MScale(MinusJ, S)}})

RECURSIVE MinPoly(_, _)
MinPoly(Qm, S) ==
    IF S = {} THEN Eye(Rows(Qm))
    ELSE dot(Shift(Qm, CHOOSE e \in S : TRUE),
             MinPoly(Qm, S \ {CHOOSE e \in S : TRUE}))

\* Qm is Hermitian and every eigenvalue of Qm is an integer in -MaxEig..MaxEig
IntegerSpectrum(Qm) ==
    /\ Qm = T(conj(Qm))
    /\ MinPoly(Qm, Spectrum(Qm)) = Zeros(Rows(Qm), Rows(Qm))

\* S = 1j*Qm with such a Qm: the domain on which expm above is exact
ExpmExact(S) == IntegerSpectrum(MScale(MinusJ, S))

----------------------------------------------------------------------------
(* The notebooks' constants *)

\* the qutrit states as column vectors
q0 == <<<<R(1)>>, <<R(0)>>, <<R(0)>>>>
q1 == <<<<R(0)>>, <<R(1)>>, <<R(0)>>>>
q2 == <<<<R(0)>>, <<R(0)>>, <<R(1)>>>>

\* the Gell-Mann matrices
gm1 == MAdd(kron(q0, T(q1)), kron(q1, T(q0)))
gm2 == MScale(MinusJ, MSub(kron(q0, T(q1)), kron(q1, T(q0))))
gm3 == MSub(kron(q0, T(q0)), kron(q1, T(q1)))
gm4 == MAdd(kron(q0, T(q2)), kron(q2, T(q0)))
gm5 == MScale(MinusJ, MSub(kron(q0, T(q2)), kron(q2, T(q0))))
gm6 == MAdd(kron(q1, T(q2)), kron(q2, T(q1)))
gm7 == MScale(MinusJ, MSub(kron(q1, T(q2)), kron(q2, T(q1))))
\* gm8 with |2><2| taken once: diag(1, 1, -1)/sqrt(3)
gm8_unbalanced ==
    MScale(InvSqrt3,
           MSub(MAdd(kron(q0, T(q0)), kron(q1, T(q1))), kron(q2, T(q2))))
\* gm8 without the factor 1/np.sqrt(3): diag(1, 1, -2)
gm8_unscaled ==
    MSub(MAdd(kron(q0, T(q0)), kron(q1, T(q1))),
         MScale(R(2), kron(q2, T(q2))))
gm8 == MScale(InvSqrt3,
              MSub(MAdd(kron(q0, T(q0)), kron(q1, T(q1))),
                   MScale(R(2), kron(q2, T(q2)))))

generators == <<gm1, gm2, gm3, gm4, gm5, gm6, gm7, gm8>>

\* np.exp(2j*np.pi/3) = -1/2 + (sqrt(3)/2)i and its conjugate np.exp(-2j*np.pi/3)
Omega == NConst(<<-1, 0, 0, 1, 2>>)
OmegaBar == NConst(<<-1, 0, 0, -1, 2>>)

\* the same matrix without the factor 1/np.sqrt(3)
H_unnormalised ==
    <<<<R(1), R(1), R(1)>>, <<R(1), Omega, OmegaBar>>,
      <<R(1), OmegaBar, Omega>>>>
\* the same matrix with np.exp(2j*np.pi/3) in place of np.exp(-2j*np.pi/3)
H_conj_dropped ==
    MScale(InvSqrt3, <<<<R(1), R(1), R(1)>>,
                       <<R(1), Omega, Omega>>,
                       <<R(1), Omega, Omega>>>>)
\* the same matrix with its first two columns exchanged
H_columns_swapped ==
    MScale(InvSqrt3, <<<<R(1), R(1), R(1)>>,
                       <<Omega, R(1), OmegaBar>>,
                       <<OmegaBar, R(1), Omega>>>>)
\* the Hadamard operator for qutrits
H == MScale(InvSqrt3, <<<<R(1), R(1), R(1)>>,
                        <<R(1), Omega, OmegaBar>>,
                        <<R(1), OmegaBar, Omega>>>>)

\* gm3 + gm8, without the factor np.sqrt(3)
LZ2_unweighted == MAdd(gm3, gm8)
\* the entangling operator
LZ2 == MAdd(gm3, MScale(Sqrt3, gm8))
LZZ2 == kron(LZ2, LZ2)

----------------------------------------------------------------------------
(* The program state *)

VARIABLES
    variant,    \* the notebook: "iris", "glass", "seeds" or "wine"
    globals,    \* the module-level names the functions read
    pc,         \* "idle", "kernel_matrix" (inside the comprehension), "returned"
    call,       \* the top-level call: [op, args]
    result,     \* what the call returned or raised: [err, val]
    frame,      \* locals of the last kernel evaluation
    km,         \* kernel_matrix's comprehension: [i, j, row, rows]
    evals,      \* kernel evaluations made by the current kernel_matrix call
    log         \* history: a call whose printed result was kept, [op, args,
                \* result, between]; between: another call was made since

vars == <<variant, globals, pc, call, result, frame, km, evals, log>>

Variants == {"iris", "glass", "seeds", "wine"}

Ok(v) == [err |-> "", val |-> v]
Raise(e) == [err |-> e, val |-> <<>>]

Min(a, b) == IF a < b THEN a ELSE b

\* x[lo:hi] of a Python sequence (0-based, hi exclusive, clipped to len(x))
Slice(x, lo, hi) ==
    IF Min(hi, Len(x)) <= lo THEN <<>>
    ELSE Fix([k \in 1..(Min(hi, Len(x)) - lo) |-> x[lo + k]])

\* x[-4:], the last four components
SliceFrom_last_four(x, lo) == Slice(x, Len(x) - 4, Len(x))
\* x[lo:]
SliceFrom(x, lo) == Slice(x, lo, Len(x))

----------------------------------------------------------------------------
(* encoding(vector): four features on a qutrit *)

\* generators[i] in every notebook
GeneratorIndex_first_four(i) == i
\* index of the generator that multiplies vector[i]: generators[i], and
\* generators[i+4] in the Wine notebook (0-based, as in the source)
GeneratorIndex(i) == IF variant = "wine" THEN i + 4 ELSE i

\* q0 as the base state in every notebook
Base_unrotated == globals.q0
\* the state the exponential is applied to: q0 (Seeds, Wine), np.dot(H, q0)
\* (Iris, Glass)
Base ==
    IF variant \in {"seeds", "wine"} THEN globals.q0
    ELSE dot(globals.H, globals.q0)

RECURSIVE encoding_loop_padded(_, _, _)
\* the loop with a missing component read as 0
encoding_loop_padded(vector, i, sum) ==
    IF i = 4 THEN Ok(sum)
    ELSE encoding_loop_padded(vector, i + 1,
            MAdd(sum, MScale(NMul(J, IF i >= Len(vector) THEN NZero
                                     ELSE vector[i + 1]),
                             globals.generators[GeneratorIndex(i) + 1])))
RECURSIVE encoding_loop(_, _, _)
\* for i in range(4): sum = sum + (1j * vector[i] * generators[...]);
\* vector[i] raises IndexError when i >= len(vector).  sum starts as the
\* scalar 0, which numpy broadcasts: 0 + M = M.
encoding_loop(vector, i, sum) ==
    IF i = 4 THEN Ok(sum)
    ELSE IF i >= Len(vector) THEN Raise("IndexError")
    ELSE encoding_loop(vector, i + 1,
            MAdd(sum, MScale(NMul(J, vector[i + 1]),
                             globals.generators[GeneratorIndex(i) + 1])))

\* the exponential cut after its linear term: np.dot(I + sum, base)
encoding_return_linear(s) ==
    IF s.err # "" THEN s ELSE Ok(dot(MAdd(Eye(3), s.val), Base))
\* return np.dot(expm(sum), base), unless the loop raised
encoding_return(s) ==
    IF s.err # "" THEN s ELSE Ok(dot(expm(s.val), Base))

\* a fifth component added to the third before the loop
encoding_fifth(vector) ==
    encoding_return(encoding_loop(
        IF Len(vector) > 4
        THEN [vector EXCEPT ![3] = NAdd(vector[3], vector[5])]
        ELSE vector, 0, Zeros(3, 3)))
encoding(vector) ==
    Val({encoding_return(s) : s \in {encoding_loop(vector, 0, Zeros(3, 3))}})

----------------------------------------------------------------------------
(* kernel(x1, x2) *)

\* the arguments of the encoding calls that build the first joint state
kron1_args(x1, x2) ==
    CASE variant = "iris" -> <<x1, x1>>
      [] variant \in {"glass", "seeds"} -> <<Slice(x1, 0, 4), SliceFrom(x1, 4)>>
      [] variant = "wine" -> <<Slice(x1, 0, 4), Slice(x1, 4, 8), Slice(x1, 8, 12)>>

\* every chunk of the second joint state taken from x2
kron2_args_own(x1, x2) ==
    CASE variant = "iris" -> <<x2, x2>>
      [] variant \in {"glass", "seeds"} -> <<Slice(x2, 0, 4), SliceFrom(x2, 4)>>
      [] variant = "wine" -> <<Slice(x2, 0, 4), Slice(x2, 4, 8), Slice(x2, 8, 12)>>
\* the second qutrit of the second joint state encoded from x1 in Iris
kron2_args_crossed(x1, x2) ==
    CASE variant = "iris" -> <<x2, x1>>
      [] variant \in {"glass", "seeds"} -> <<Slice(x2, 0, 4), SliceFrom(x2, 4)>>
      [] variant = "wine" -> <<Slice(x2, 0, 4), Slice(x1, 4, 8), Slice(x1, 8, 12)>>
\* the arguments of the encoding calls that build the second joint state
kron2_args(x1, x2) ==
    CASE variant = "iris" -> <<x2, x2>>
      [] variant \in {"glass", "seeds"} -> <<Slice(x2, 0, 4), SliceFrom(x2, 4)>>
      [] variant = "wine" -> <<Slice(x2, 0, 4), Slice(x1, 4, 8), Slice(x1, 8, 12)>>

\* -1j*LZZ2
entangle_gate_negated == MScale(MinusJ, globals.LZZ2)
\* entangle_gate = 1j*LZZ2
entangle_gate == MScale(J, globals.LZZ2)

\* the entangled state added to the product state:
\* qutrit_1x2 + np.dot(expm(entangle_gate), qutrit_1x2)
joint_gate_added(enc) ==
    IF variant = "wine" THEN kron(kron(enc[1], enc[2]), enc[3])
    ELSE MAdd(kron(enc[1], enc[2]),
              dot(expm(entangle_gate), kron(enc[1], enc[2])))
\* the chunk states composed in the opposite order
joint_reversed(enc) ==
    IF variant = "wine" THEN kron(kron(enc[3], enc[2]), enc[1])
    ELSE dot(expm(entangle_gate), kron(enc[2], enc[1]))
\* the joint state of the encoded qutrits: np.kron of the two states followed
\* by np.dot(expm(entangle_gate), .), and in the Wine notebook
\* np.kron(np.kron(enc1, enc2), enc3) with no entangling step
joint(enc) ==
    IF variant = "wine" THEN kron(kron(enc[1], enc[2]), enc[3])
    ELSE dot(expm(entangle_gate), kron(enc[1], enc[2]))

\* the inner product without the conjugation: np.dot(kron1.T, kron2)
overlap_no_conj(kron1, kron2) == dot(T(kron1), kron2)
\* np.dot(kron1.conj().T, kron2), a 1x1 array
overlap(kron1, kron2) == dot(T(conj(kron1)), kron2)

\* np.imag in place of np.real
kernel_value_imag(kron1, kron2) ==
    NMul(0 :> <<0, 0, -1, 0, 2>>,
         NAdd(square(overlap(kron1, kron2))[1][1],
              NNeg(NConj(square(overlap(kron1, kron2))[1][1]))))
\* the squared modulus of the inner product: np.abs(c)**2
kernel_value_modulus(kron1, kron2) ==
    NMul(overlap(kron1, kron2)[1][1], NConj(overlap(kron1, kron2)[1][1]))
\* twice the value: 2*np.real(c**2)
kernel_value_doubled(kron1, kron2) ==
    NMul(R(2), real(square(overlap(kron1, kron2)))[1][1])
\* np.real(np.dot(kron1.conj().T, kron2)**2)[0][0]
kernel_value(kron1, kron2) == real(square(overlap(kron1, kron2)))[1][1]

\* the encoding calls on a sequence of arguments
encode_all(args) == Fix([k \in DOMAIN args |-> encoding(args[k])])
values(enc) == Fix([k \in DOMAIN enc |-> enc[k].val])

KernelError(e) ==
    [err |-> e, val |-> <<>>, enc1 |-> <<>>, enc2 |-> <<>>,
     kron1 |-> <<>>, kron2 |-> <<>>]

\* the locals of kernel at its return statement
kernel_return(enc1, enc2, kron1, kron2) ==
    [err |-> "", val |-> kernel_value(kron1, kron2), enc1 |-> enc1,
     enc2 |-> enc2, kron1 |-> kron1, kron2 |-> kron2]

kernel_states(enc1, enc2) ==
    Val({kernel_return(enc1, enc2, kron1, kron2) :
         kron1 \in {joint(enc1)}, kron2 \in {joint(enc2)}})

\* an IndexError of any encoding call ends the evaluation
kernel_encoded(e1, e2) ==
    IF \E k \in DOMAIN e1 : e1[k].err # "" \/ e2[k].err # ""
    THEN KernelError("IndexError")
    ELSE kernel_states(values(e1), values(e2))

\* one evaluation of kernel, with the values of its locals
kernel_run(x1, x2) ==
    Val({kernel_encoded(e1, e2) : e1 \in {encode_all(kron1_args(x1, x2))},
                                  e2 \in {encode_all(kron2_args(x1, x2))}})

Returned(r) == [err |-> r.err, val |-> r.val]

kernel(x1, x2) == Returned(kernel_run(x1, x2))

----------------------------------------------------------------------------
(* kernel_matrix(A, B): np.array([[kernel(a, b) for b in B] for a in A]),   *)
(* one kernel evaluation per step *)

\* np.array(rows): a list of equally long lists becomes a 2-dimensional
\* array, the empty list the 1-dimensional array of shape (0,)
np_array(rows) ==
    [shape |-> IF rows = <<>> THEN <<0>> ELSE <<Len(rows), Len(rows[1])>>,
     data |-> rows]

\* every entry computed from the row of A alone: kernel(a, a)
kernel_matrix_entry_diag(A, B, i, j) == kernel_run(A[i + 1], A[i + 1])
\* kernel(a, b) for a = A[i], b = B[j]
kernel_matrix_entry(A, B, i, j) == kernel_run(A[i + 1], B[j + 1])

NoCall == [op |-> "none", args |-> <<>>]
NoFrame == KernelError("")
NoLoop == [i |-> 0, j |-> 0, row |-> <<>>, rows |-> <<>>]
NoLog == [op |-> "none", args |-> <<>>, result |-> [err |-> "", val |-> <<>>],
          between |-> FALSE]

----------------------------------------------------------------------------
(* Inputs.  Feature vectors are drawn from small pools of vectors on which *)
(* expm is exact: the Hermitian combination of generators they select has  *)
(* integer eigenvalues.                                                    *)

MaxRows == 2

F4(a, b, c, d) == <<R(a), R(b), R(c), R(d)>>

\* four-feature chunks for generators gm1..gm4 (spectra {0}, {-1,0,1},
\* {-1,0,1}, {-3,0,3}) and for gm5..gm8 ({0}, {-2,1}, {-1,0,1}, {-3,0,3})
Chunks ==
    IF variant = "wine"
    THEN <<F4(0, 0, 0, 0), <<R(0), R(0), R(0), Sqrt3>>, F4(1, 0, 0, 0),
           F4(2, 1, 2, 0)>>
    ELSE <<F4(0, 0, 0, 0), F4(0, 0, 1, 0), F4(1, 0, 0, 0), F4(2, 2, 1, 0)>>

\* further four-feature vectors inside the domain of expm
Singles ==
    IF variant = "wine"
    THEN {F4(0, 1, 0, 0), F4(0, 0, -1, 0), F4(0, -2, 0, 0), F4(-1, 2, 2, 0)}
    ELSE {F4(0, 1, 0, 0), F4(0, 0, 0, -1), F4(0, 0, -2, 0), F4(1, -2, 2, 0),
          <<R(0), R(0), R(2), Sqrt3>>}

Vectors4 == {Chunks[k] : k \in 1..4} \cup Singles

\* arguments of top-level encoding calls: lengths 0, 3, 4, 5 and 8
EncodingInputs ==
    Vectors4
    \cup {<<>>, Slice(Chunks[2], 0, 3), Chunks[2] \o <<R(1)>>,
          Chunks[2] \o <<R(2)>>, Chunks[3] \o Chunks[2]}

\* arguments of top-level kernel calls: vectors of the length the notebook's
\* dataset has (4, 8, 8, 12), one longer and one shorter
KernelInputs ==
    CASE variant = "iris" ->
           {Chunks[k] : k \in 1..4}
           \cup {Chunks[2] \o <<R(1)>>, Slice(Chunks[2], 0, 3)}
      [] variant \in {"glass", "seeds"} ->
           {Chunks[1] \o Chunks[1], Chunks[2] \o Chunks[1],
            Chunks[1] \o Chunks[2], Chunks[3] \o Chunks[4],
            Chunks[4] \o Chunks[3], Chunks[2] \o Slice(Chunks[3], 0, 3),
            Chunks[2] \o Chunks[1] \o <<R(1)>>}
      [] variant = "wine" ->
           {Chunks[1] \o Chunks[1] \o Chunks[1],
            Chunks[2] \o Chunks[1] \o Chunks[1],
            Chunks[1] \o Chunks[2] \o Chunks[3],
            Chunks[3] \o Chunks[4] \o Chunks[1],
            Chunks[4] \o Chunks[3] \o Chunks[2],
            Chunks[2] \o Chunks[3]}

\* rows of the arguments of kernel_matrix
RowPool ==
    CASE variant = "iris" -> {Chunks[2], Chunks[3]}
      [] variant \in {"glass", "seeds"} ->
           {Chunks[2] \o Chunks[1], Chunks[3] \o Chunks[4]}
      [] variant = "wine" ->
           {Chunks[2] \o Chunks[1] \o Chunks[1],
            Chunks[3] \o Chunks[4] \o Chunks[1]}

RowSeqs == UNION {[1..n -> RowPool] : n \in 0..MaxRows}

----------------------------------------------------------------------------
(* Initial state and actions *)

Init ==
    /\ variant \in Variants
    /\ globals = [q0 |-> q0, q1 |-> q1, q2 |-> q2, generators |-> generators,
                  H |-> H, LZ2 |-> LZ2, LZZ2 |-> LZZ2]
    /\ pc = "idle"
    /\ call = NoCall
    /\ result = Ok(<<>>)
    /\ frame = NoFrame
    /\ km = NoLoop
    /\ evals = 0
    /\ log = NoLog

\* a cell calls encoding(vector)
CallEncoding ==
    /\ pc = "idle"
    /\ \E vector \in EncodingInputs :
          /\ call' = [op |-> "encoding", args |-> <<vector>>]
          /\ result' = encoding(vector)
    /\ pc' = "returned"
    /\ UNCHANGED <<variant, globals, frame, km, evals, log>>

\* kernel with the entangling operator overwritten by the call:
\* global LZZ2; LZZ2 = 1j*LZZ2
CallKernel_clobbers ==
    /\ pc = "idle"
    /\ \E x1 \in KernelInputs, x2 \in KernelInputs :
          \E r \in {kernel_run(x1, x2)} :
              /\ call' = [op |-> "kernel", args |-> <<x1, x2>>]
              /\ frame' = r
              /\ result' = Returned(r)
    /\ pc' = "returned"
    /\ globals' = [globals EXCEPT !.LZZ2 = entangle_gate]
    /\ UNCHANGED <<variant, km, evals, log>>
\* kernel with the Hadamard operator rescaled in place by the call:
\* H *= np.sqrt(3)
CallKernel_rescales ==
    /\ pc = "idle"
    /\ \E x1 \in KernelInputs, x2 \in KernelInputs :
          \E r \in {kernel_run(x1, x2)} :
              /\ call' = [op |-> "kernel", args |-> <<x1, x2>>]
              /\ frame' = r
              /\ result' = Returned(r)
    /\ pc' = "returned"
    /\ globals' = [globals EXCEPT !.H = MScale(Sqrt3, globals.H)]
    /\ UNCHANGED <<variant, km, evals, log>>
\* a cell calls kernel(x1, x2)
CallKernel ==
    /\ pc = "idle"
    /\ \E x1 \in KernelInputs, x2 \in KernelInputs :
          \E r \in {kernel_run(x1, x2)} :
              /\ call' = [op |-> "kernel", args |-> <<x1, x2>>]
              /\ frame' = r
              /\ result' = Returned(r)
    /\ pc' = "returned"
    /\ UNCHANGED <<variant, globals, km, evals, log>>

\* a cell (or the SVM) calls kernel_matrix(A, B): the comprehension starts
CallKernelMatrix ==
    /\ pc = "idle"
    /\ \E A \in RowSeqs, B \in RowSeqs :
          call' = [op |-> "kernel_matrix", args |-> <<A, B>>]
    /\ pc' = "kernel_matrix"
    /\ km' = NoLoop
    /\ evals' = 0
    /\ UNCHANGED <<variant, globals, result, frame, log>>

\* the inner comprehension with the value of the previous column reused,
\* without a kernel evaluation, when b is the previous b
KernelMatrixEval_reuse ==
    /\ pc = "kernel_matrix"
    /\ km.i < Len(call.args[1])
    /\ km.j < Len(call.args[2])
    /\ IF km.j > 0 /\ call.args[2][km.j + 1] = call.args[2][km.j]
       THEN /\ km' = [km EXCEPT !.j = km.j + 1,
                                !.row = Append(km.row, km.row[km.j])]
            /\ UNCHANGED <<result, pc, frame, evals>>
       ELSE \E r \in {kernel_matrix_entry(call.args[1], call.args[2],
                                           km.i, km.j)} :
               /\ frame' = r
               /\ evals' = evals + 1
               /\ IF r.err # ""
                  THEN /\ result' = Raise(r.err)
                       /\ pc' = "returned"
                       /\ km' = km
                  ELSE /\ km' = [km EXCEPT !.j = km.j + 1,
                                           !.row = Append(km.row, r.val)]
                       /\ UNCHANGED <<result, pc>>
    /\ UNCHANGED <<variant, globals, call, log>>
\* inner comprehension: kernel(a, b) for the next b in B
KernelMatrixEval ==
    /\ pc = "kernel_matrix"
    /\ km.i < Len(call.args[1])
    /\ km.j < Len(call.args[2])
    /\ \E r \in {kernel_matrix_entry(call.args[1], call.args[2], km.i, km.j)} :
           /\ frame' = r
           /\ evals' = evals + 1
           /\ IF r.err # ""
              THEN /\ result' = Raise(r.err)
                   /\ pc' = "returned"
                   /\ km' = km
              ELSE /\ km' = [km EXCEPT !.j = km.j + 1,
                                       !.row = Append(km.row, r.val)]
                   /\ UNCHANGED <<result, pc>>
    /\ UNCHANGED <<variant, globals, call, log>>

\* the inner list for a is complete: next a in A
KernelMatrixRow ==
    /\ pc = "kernel_matrix"
    /\ km.i < Len(call.args[1])
    /\ km.j >= Len(call.args[2])
    /\ km' = [i |-> km.i + 1, j |-> 0, row |-> <<>>,
              rows |-> Append(km.rows, km.row)]
    /\ UNCHANGED <<variant, globals, pc, call, result, frame, evals, log>>

\* the outer list is complete: np.array(...) is returned
KernelMatrixReturn ==
    /\ pc = "kernel_matrix"
    /\ km.i >= Len(call.args[1])
    /\ result' = Ok(np_array(km.rows))
    /\ pc' = "returned"
    /\ UNCHANGED <<variant, globals, call, frame, km, evals, log>>

\* the call that has returned is the kept call again
SameCall == call.op = log.op /\ call.args = log.args

\* the cell is finished; the next cell can make a call
NextCell ==
    /\ pc = "returned"
    /\ pc' = "idle"
    /\ call' = NoCall
    /\ result' = Ok(<<>>)
    /\ frame' = NoFrame
    /\ km' = NoLoop
    /\ evals' = 0
    /\ log' = IF log.op = "none" \/ SameCall THEN log
              ELSE [log EXCEPT !.between = TRUE]
    /\ UNCHANGED <<variant, globals>>

Next ==
    \/ CallEncoding
    \/ CallKernel
    \/ CallKernelMatrix
    \/ KernelMatrixEval
    \/ KernelMatrixRow
    \/ KernelMatrixReturn
    \/ NextCell

Spec == Init /\ [][Next]_vars

\* The calls whose printed result a cell keeps: one call of each function
Probes ==
    {[op |-> "encoding", args |-> <<Chunks[2]>>],
     [op |-> "kernel",
      args |-> <<CHOOSE x \in RowPool : Slice(x, 0, 4) = Chunks[2],
                 CHOOSE x \in RowPool : Slice(x, 0, 4) = Chunks[3]>>],
     [op |-> "kernel_matrix",
      args |-> <<<<CHOOSE x \in RowPool : Slice(x, 0, 4) = Chunks[3]>>,
                 <<CHOOSE x \in RowPool : Slice(x, 0, 4) = Chunks[2]>>>>]}

\* the cell is finished and its printed result is kept, to be compared with
\* what later calls with the same arguments return
KeepOutput ==
    /\ pc = "returned"
    /\ log.op = "none"
    /\ \E p \in Probes : p.op = call.op /\ p.args = call.args
    /\ log' = [op |-> call.op, args |-> call.args, result |-> result,
               between |-> FALSE]
    /\ pc' = "idle"
    /\ call' = NoCall
    /\ result' = Ok(<<>>)
    /\ frame' = NoFrame
    /\ km' = NoLoop
    /\ evals' = 0
    /\ UNCHANGED <<variant, globals>>

NextKeeping == Next \/ KeepOutput

\* the program with the outputs of some cells kept
SpecHist == Init /\ [][NextKeeping]_vars

\* KernelMatrixEval can be taken: the state predicate ENABLED
\* <<KernelMatrixEval>>_vars (kernel_run has a value for every pair of rows)
EvalEnabled ==
    /\ pc = "kernel_matrix"
    /\ km.i < Len(call.args[1])
    /\ km.j < Len(call.args[2])

\* a KernelMatrixEval step, told by its effect: the only step that counts an
\* evaluation
EvalStep == EvalEnabled /\ evals' = evals + 1

\* WF_vars(KernelMatrixEval), with its enabling condition and its steps
\* written out
EvalFair == []<>(~EvalEnabled) \/ []<><<EvalStep>>_vars

\* The interpreter runs a started comprehension to its end: each step of
\* kernel_matrix that can be taken is taken.
LiveSpec ==
    /\ Spec
    /\ EvalFair
    /\ WF_vars(KernelMatrixRow)
    /\ WF_vars(KernelMatrixReturn)

\* every matrix handed to expm is inside the domain where expm is exact
ExpmDomainOk ==
    /\ ExpmExact(entangle_gate)
    /\ \A v \in Vectors4 : ExpmExact(encoding_loop(v, 0, Zeros(3, 3)).val)

----------------------------------------------------------------------------
(* Sound bounds of a real number of the model, in units of 1/10000.  cos k  *)
(* and sin k are bounded in hundredths for |k| up to the length of the      *)
(* tables and by [-1, 1] beyond, sqrt 3 by [1.73, 1.74].                    *)

CosTable ==
    <<<<54, 55>>, <<-42, -41>>, <<-99, -98>>, <<-66, -65>>, <<28, 29>>,
      <<96, 97>>, <<75, 76>>, <<-15, -14>>, <<-92, -91>>, <<-84, -83>>,
      <<0, 1>>, <<84, 85>>>>
SinTable ==
    <<<<84, 85>>, <<90, 91>>, <<14, 15>>, <<-76, -75>>, <<-96, -95>>,
      <<-28, -27>>, <<65, 66>>, <<98, 99>>, <<41, 42>>, <<-55, -54>>,
      <<-100, -99>>, <<-54, -53>>>>

cos_bounds(k) ==
    IF k = 0 THEN <<100, 100>>
    ELSE IF Abs(k) > Len(CosTable) THEN <<-100, 100>>
    ELSE CosTable[Abs(k)]
sin_bounds(k) ==
    IF k = 0 THEN <<0, 0>>
    ELSE IF Abs(k) > Len(SinTable) THEN <<-100, 100>>
    ELSE IF k > 0 THEN SinTable[k]
    ELSE <<-SinTable[-k][2], -SinTable[-k][1]>>

\* a + b*sqrt3 in hundredths
lin_bounds(a, b) ==
    <<100 * a + (IF b >= 0 THEN 173 * b ELSE 174 * b),
      100 * a + (IF b >= 0 THEN 174 * b ELSE 173 * b)>>

IMul(x, y) ==
    <<SetMin({x[1] * y[1], x[1] * y[2], x[2] * y[1], x[2] * y[2]}),
      SetMax({x[1] * y[1], x[1] * y[2], x[2] * y[1], x[2] * y[2]})>>
ISub(x, y) == <<x[1] - y[2], x[2] - y[1]>>

\* the real part of c * e^{ik}: (Re c) cos k - (Im c) sin k, rounded outwards
term_bounds(c, k) ==
    LET t == ISub(IMul(lin_bounds(c[1], c[2]), cos_bounds(k)),
                  IMul(lin_bounds(c[3], c[4]), sin_bounds(k)))
    IN  <<t[1] \div c[5], -((-t[2]) \div c[5])>>

RECURSIVE real_bounds(_, _)
\* the sum of the terms of v with exponents in S
real_bounds(v, S) ==
    IF S = {} THEN <<0, 0>>
    ELSE LET k == CHOOSE e \in S : TRUE
             t == term_bounds(v[k], k)
             r == real_bounds(v, S \ {k})
         IN  <<t[1] + r[1], t[2] + r[2]>>

\* a float (not complex) scalar: a number equal to its conjugate
is_real(v) == v = NConj(v)
lower(v) == real_bounds(v, DOMAIN v)[1]
upper(v) == real_bounds(v, DOMAIN v)[2]

----------------------------------------------------------------------------
(* The claims *)

\* the number of features of a row of the notebook's dataset
n_features ==
    CASE variant = "iris" -> 4
      [] variant \in {"glass", "seeds"} -> 8
      [] variant = "wine" -> 12

Returns(op) == pc = "returned" /\ call.op = op

\* C1: for every feature vector x of the length the variant expects,
\* kernel(x, x) returns 1, in each of the four variants.
C1_KernelSelfIsOne ==
    (Returns("kernel") /\ call.args[1] = call.args[2]
        /\ Len(call.args[1]) = n_features)
    => result = Ok(R(1))

\* a self-kernel of a non-zero Wine row has returned 1
C1_Witness ==
    /\ Returns("kernel")
    /\ variant = "wine"
    /\ call.args[1] = call.args[2]
    /\ Len(call.args[1]) = n_features
    /\ \E k \in 1..n_features : call.args[1][k] # NZero
    /\ result = Ok(R(1))

\* C2: the value kernel returns is a real scalar v with 0 <= v <= 1 (stated
\* on the bounds of v: v is not certainly below 0 or above 1).
C2_KernelInUnitInterval ==
    (Returns("kernel") /\ result.err = "")
    => /\ is_real(result.val)
       /\ upper(result.val) >= 0
       /\ lower(result.val) <= 10000

\* C3: the value kernel returns is |c|^2 = c * conj(c) for the inner product
\* c = kron1^dagger . kron2 of the two joint states.
C3_KernelIsSquaredModulus ==
    (Returns("kernel") /\ result.err = "")
    => result.val = NMul(overlap(frame.kron1, frame.kron2)[1][1],
                         NConj(overlap(frame.kron1, frame.kron2)[1][1]))

\* C4: for vectors x1 and x2 the variant accepts (at least n_features long),
\* kernel(x1, x2) returns what kernel(x2, x1) returns, and kernel_matrix(A, A)
\* is a symmetric matrix.
C4_KernelSymmetric ==
    /\ (Returns("kernel") /\ Len(call.args[1]) >= n_features
            /\ Len(call.args[2]) >= n_features)
       => /\ result.err = ""
          /\ result = kernel(call.args[2], call.args[1])
    /\ (Returns("kernel_matrix") /\ call.args[1] = call.args[2]
            /\ result.err = "")
       => \A i, j \in 1..Len(call.args[1]) :
             result.val.data[i][j] = result.val.data[j][i]

\* kernel has returned a value other than 1 for two different vectors
C4_Witness ==
    /\ Returns("kernel")
    /\ Len(call.args[1]) >= n_features
    /\ Len(call.args[2]) >= n_features
    /\ call.args[1] # call.args[2]
    /\ result.err = ""
    /\ result.val # R(1)
    /\ result.val # NZero

\* C5: in the multi-chunk variants chunk j of the first joint state is the
\* encoding of features 4j..4j+3 of x1, and chunk j of the second joint
\* state the encoding of features 4j..4j+3 of x2.
C5_ChunksOfOwnVector ==
    (Returns("kernel") /\ variant # "iris" /\ result.err = "")
    => \A j \in 1..(n_features \div 4) :
          /\ Ok(frame.enc1[j])
                = encoding(Slice(call.args[1], 4 * (j - 1), 4 * j))
          /\ Ok(frame.enc2[j])
                = encoding(Slice(call.args[2], 4 * (j - 1), 4 * j))

\* C6 as stated: kernel_matrix(A, B) has shape (|A|, |B|) and entry (i, j)
\* is kernel(A[i], B[j]), for every A and B.
C6_ShapeForEveryA ==
    (Returns("kernel_matrix") /\ result.err = "")
    => /\ result.val.shape = <<Len(call.args[1]), Len(call.args[2])>>
       /\ \A i \in 1..Len(call.args[1]), j \in 1..Len(call.args[2]) :
             Ok(result.val.data[i][j])
                = kernel(call.args[1][i], call.args[2][j])

\* C6 amended: for a non-empty A, kernel_matrix(A, B) has shape (|A|, |B|)
\* and entry (i, j) is kernel(A[i], B[j]); for an empty A it is the empty
\* one-dimensional array of shape (0,).
C6_KernelMatrixEntries ==
    (Returns("kernel_matrix") /\ result.err = "")
    => /\ result.val.shape =
             IF call.args[1] = <<>> THEN <<0>>
             ELSE <<Len(call.args[1]), Len(call.args[2])>>
       /\ Len(result.val.data) = Len(call.args[1])
       /\ \A i \in 1..Len(call.args[1]) :
             /\ Len(result.val.data[i]) = Len(call.args[2])
             /\ \A j \in 1..Len(call.args[2]) :
                   Ok(result.val.data[i][j])
                      = kernel(call.args[1][i], call.args[2][j])

\* a 2 x 1 matrix has been returned, its two entries different
C6_Witness ==
    /\ Returns("kernel_matrix")
    /\ result.err = ""
    /\ Len(call.args[1]) = 2
    /\ Len(call.args[2]) = 1
    /\ result.val.shape = <<2, 1>>
    /\ result.val.data[1][1] # result.val.data[2][1]

\* C7: every diagonal entry (i, i) of kernel_matrix(A, A) is 1.
C7_DiagonalIsOne ==
    (Returns("kernel_matrix") /\ call.args[1] = call.args[2]
        /\ result.err = "")
    => \A i \in 1..Len(call.args[1]) : result.val.data[i][i] = R(1)

\* kernel_matrix(A, A) has returned for two different rows
C7_Witness ==
    /\ Returns("kernel_matrix")
    /\ result.err = ""
    /\ call.args[1] = call.args[2]
    /\ Len(call.args[1]) = 2
    /\ call.args[1][1] # call.args[1][2]
    /\ result.val.data[1][1] = R(1)
    /\ result.val.data[2][2] = R(1)
    /\ result.val.data[1][2] # R(1)

\* C8: for a vector of four features encoding returns a complex 3-vector
\* (a 3 x 1 array) of norm 1, in each variant.
C8_EncodingUnitNorm ==
    (Returns("encoding") /\ Len(call.args[1]) = 4)
    => /\ result.err = ""
       /\ Rows(result.val) = 3
       /\ Cols(result.val) = 1
       /\ dot(T(conj(result.val)), result.val) = <<<<R(1)>>>>

\* encoding has returned a state with more than one non-zero amplitude
C8_Witness ==
    /\ Returns("encoding")
    /\ Len(call.args[1]) = 4
    /\ result.err = ""
    /\ Cardinality({r \in 1..3 : result.val[r][1] # NZero}) > 1
    /\ dot(T(conj(result.val)), result.val) = <<<<R(1)>>>>

\* C9 as stated: encoding returns a 3-vector, without an error, for every
\* sequence of at most four numbers.
C9_AcceptsAtMostFour ==
    (Returns("encoding") /\ Len(call.args[1]) <= 4)
    => /\ result.err = ""
       /\ Rows(result.val) = 3

\* C9 amended: encoding returns a 3-vector, without an error, for every
\* sequence of exactly four numbers, and raises IndexError for every shorter
\* sequence.
C9_AcceptsExactlyFour ==
    Returns("encoding")
    => /\ Len(call.args[1]) = 4
          => (result.err = "" /\ Rows(result.val) = 3)
       /\ Len(call.args[1]) < 4
          => result = Raise("IndexError")

\* encoding of a sequence of three numbers has raised IndexError
C9_Witness ==
    /\ Returns("encoding")
    /\ Len(call.args[1]) = 3
    /\ result = Raise("IndexError")

\* C10: for a vector of at least four components encoding raises no error,
\* and every vector of at least four components with the same first four
\* is encoded to the same state.
C10_IgnoresExtraComponents ==
    (Returns("encoding") /\ Len(call.args[1]) >= 4)
    => /\ result.err = ""
       /\ \A w \in EncodingInputs :
             (Len(w) >= 4 /\ Slice(w, 0, 4) = Slice(call.args[1], 0, 4))
             => encoding(w) = result

\* encoding of a five-component vector has returned, and the inputs hold a
\* four-component and another five-component vector with the same first four
C10_Witness ==
    /\ Returns("encoding")
    /\ Len(call.args[1]) = 5
    /\ result.err = ""
    /\ \E w \in EncodingInputs :
          Len(w) = 4 /\ w = Slice(call.args[1], 0, 4)
    /\ \E w \in EncodingInputs :
          /\ Len(w) = 5
          /\ w # call.args[1]
          /\ Slice(w, 0, 4) = Slice(call.args[1], 0, 4)

\* C11: encoding of the all-zero feature vector returns the base vector
\* unchanged: q0 in the Seeds and Wine variants, np.dot(H, q0) in the Iris
\* and Glass variants.
C11_ZeroVectorGivesBase ==
    (Returns("encoding") /\ Len(call.args[1]) >= 4
        /\ \A k \in 1..Len(call.args[1]) : call.args[1][k] = NZero)
    => result = Ok(IF variant \in {"seeds", "wine"} THEN q0 ELSE dot(H, q0))

\* the Glass encoding of (0, 0, 0, 0) has returned np.dot(H, q0), not q0
C11_Witness ==
    /\ Returns("encoding")
    /\ variant = "glass"
    /\ call.args[1] = F4(0, 0, 0, 0)
    /\ result = Ok(dot(H, q0))
    /\ result.val # q0

\* C12: each of the eight generators gm1..gm8 equals its conjugate transpose
\* and has trace 0.
C12_GeneratorsHermitianTraceless ==
    /\ Len(globals.generators) = 8
    /\ \A k \in 1..8 :
          /\ globals.generators[k] = T(conj(globals.generators[k]))
          /\ NAdd(NAdd(globals.generators[k][1][1], globals.generators[k][2][2]),
                  globals.generators[k][3][3]) = NZero

\* an encoding call has used the generators, among them the non-symmetric
\* gm2 and the diagonal gm8
C12_Witness ==
    /\ Returns("encoding")
    /\ result.err = ""
    /\ globals.generators[2] # T(globals.generators[2])
    /\ globals.generators[8][1][1] # NZero
    /\ \E k \in 1..4 : call.args[1][k] # NZero

\* C13: H . H^dagger is the 3 x 3 identity.
C13_HadamardUnitary ==
    dot(globals.H, T(conj(globals.H))) = Eye(3)

\* the Iris encoding has applied H, a matrix with non-real entries
C13_Witness ==
    /\ Returns("encoding")
    /\ variant = "iris"
    /\ result.err = ""
    /\ globals.H[2][2] # NConj(globals.H[2][2])
    /\ dot(globals.H, T(conj(globals.H))) = Eye(3)

\* C14: in the variants with an entanglement step, expm(1j*LZZ2) is a
\* diagonal 9 x 9 matrix and each of its diagonal entries has modulus 1,
\* before the first call, between calls and whenever kernel has applied it.
C14_EntanglerDiagonalUnitary ==
    (variant # "wine" /\ (pc = "idle" \/ Returns("kernel")))
    => \A U \in {expm(entangle_gate)} :
          /\ Rows(U) = 9
          /\ Cols(U) = 9
          /\ IsDiagonal(U)
          /\ \A k \in 1..9 : NMul(U[k][k], NConj(U[k][k])) = R(1)

\* a Glass kernel call has applied the operator, which is not the identity
C14_Witness ==
    /\ Returns("kernel")
    /\ variant = "glass"
    /\ result.err = ""
    /\ expm(entangle_gate) # Eye(9)
    /\ frame.kron1
         = dot(expm(entangle_gate), kron(frame.enc1[1], frame.enc1[2]))

\* C15: gm8 is diag(1/sqrt(3), 1/sqrt(3), -2/sqrt(3)), every off-diagonal
\* entry 0.
C15_Gm8Value ==
    globals.generators[8]
      = <<<<InvSqrt3, NZero, NZero>>,
          <<NZero, InvSqrt3, NZero>>,
          <<NZero, NZero, NMul(R(-2), InvSqrt3)>>>>

\* a Wine encoding call with a non-zero fourth feature has used gm8
C15_Witness ==
    /\ Returns("encoding")
    /\ variant = "wine"
    /\ result.err = ""
    /\ call.args[1][4] # NZero
    /\ globals.generators[GeneratorIndex(3) + 1][3][3] = NMul(R(-2), InvSqrt3)

\* C16: np.dot(H, q0) is (1/sqrt(3)) (1, 1, 1): the three amplitudes are
\* equal and each has squared modulus 1/3.
C16_HadamardOnQ0 ==
    /\ dot(globals.H, globals.q0)
         = MScale(InvSqrt3, <<<<R(1)>>, <<R(1)>>, <<R(1)>>>>)
    /\ \A v \in {dot(globals.H, globals.q0)} :
          \A r \in 1..3 : NMul(v[r][1], NConj(v[r][1])) = Q(1, 3)

\* the Iris encoding of (0, 0, 0, 0) has returned (1/sqrt(3)) (1, 1, 1)
C16_Witness ==
    /\ Returns("encoding")
    /\ variant = "iris"
    /\ call.args[1] = F4(0, 0, 0, 0)
    /\ result = Ok(<<<<InvSqrt3>>, <<InvSqrt3>>, <<InvSqrt3>>>>)

\* C17: no step of a call of encoding, kernel or kernel_matrix, in any
\* number and any order of calls, changes q0, q1, q2, the generators, H, LZ2
\* or LZZ2.
C17_ConstantsNeverChange == [][globals' = globals]_vars

\* after a kept kernel_matrix call and a call of another function, an
\* encoding call has returned and the constants are those of the start
C17_Witness ==
    /\ Returns("encoding")
    /\ result.err = ""
    /\ log.op = "kernel_matrix"
    /\ log.between
    /\ globals = [q0 |-> q0, q1 |-> q1, q2 |-> q2, generators |-> generators,
                  H |-> H, LZ2 |-> LZ2, LZZ2 |-> LZZ2]

\* C18: a call of encoding, kernel or kernel_matrix returns (or raises) what
\* an earlier call of the same function with equal arguments did, whatever
\* calls were made in between.
C18_SameArgumentsSameResult ==
    (pc = "returned" /\ SameCall) => result = log.result

\* each function has returned the kept result again after other calls
C18_Witness ==
    /\ pc = "returned"
    /\ SameCall
    /\ log.between
    /\ call.op = "kernel"
    /\ result = log.result
    /\ result.err = ""
    /\ result.val # R(1)

\* C19: kernel_matrix(A, B) terminates; when it has returned its array it
\* has made exactly |A|*|B| kernel evaluations, evaluation number
\* i*|B| + j + 1 being the one of the pair (A[i], B[j]); and each evaluation
\* computes the encoded states and the joint states of its pair anew.
C19_KernelMatrixEvaluations ==
    /\ [](pc = "kernel_matrix"
            => /\ km.i <= Len(call.args[1])
               /\ km.j <= Len(call.args[2])
               /\ evals = km.i * Len(call.args[2]) + km.j)
    /\ []((Returns("kernel_matrix") /\ result.err = "")
            => evals = Len(call.args[1]) * Len(call.args[2]))
    /\ [][(pc = "kernel_matrix" /\ evals' # evals)
            => /\ evals' = evals + 1
               /\ frame' = kernel_run(call.args[1][km.i + 1],
                                      call.args[2][km.j + 1])
               /\ frame'.enc1 # <<>>]_vars
    /\ (pc = "kernel_matrix") ~> Returns("kernel_matrix")

\* kernel_matrix has returned after four evaluations for a B whose two rows
\* are equal
C19_Witness ==
    /\ Returns("kernel_matrix")
    /\ result.err = ""
    /\ Len(call.args[1]) = 2
    /\ Len(call.args[2]) = 2
    /\ call.args[2][1] = call.args[2][2]
    /\ call.args[1][1] # call.args[1][2]
    /\ evals = 4

C21_OneGeneratorPerFeature ==
    (Returns("encoding") /\ Len(call.args[1]) >= 4)
    => \A v \in {call.args[1]},
          g \in {IF variant = "wine" THEN <<gm5, gm6, gm7, gm8>>
                 ELSE <<gm1, gm2, gm3, gm4>>} :
          \A S \in {MAdd(MAdd(MScale(NMul(J, v[1]), g[1]),
                              MScale(NMul(J, v[2]), g[2])),
                         MAdd(MScale(NMul(J, v[3]), g[3]),
                              MScale(NMul(J, v[4]), g[4])))} :
             /\ encoding_loop(v, 0, Zeros(3, 3)) = Ok(S)
             /\ result = Ok(dot(expm(S), Base))

\* encoding has returned for a vector with three non-zero features, in the
\* Wine variant
C21_Witness ==
    /\ Returns("encoding")
    /\ variant = "wine"
    /\ result.err = ""
    /\ Len(call.args[1]) = 4
    /\ Cardinality({k \in 1..4 : call.args[1][k] # NZero}) >= 3

\* C22: the joint states kron1 and kron2 are column vectors of dimension 9
\* (Iris, Glass, Seeds) or 27 (Wine), and each is composed from its chunk
\* states in the order of the chunks, the state of the lowest chunk as the
\* leftmost factor of np.kron: chunk j of kron1 is the encoding of chunk j of
\* x1, chunk j of kron2 the encoding of chunk j of x2 (of x1 for the second
\* and third chunk in the Wine variant).
C22_JointStateOrder ==
    (Returns("kernel") /\ result.err = "")
    => \A x1 \in {call.args[1]}, x2 \in {call.args[2]},
          e \in {frame.enc1}, f \in {frame.enc2} :
          /\ Rows(frame.kron1) = (IF variant = "wine" THEN 27 ELSE 9)
          /\ Rows(frame.kron2) = (IF variant = "wine" THEN 27 ELSE 9)
          /\ Cols(frame.kron1) = 1
          /\ Cols(frame.kron2) = 1
          /\ Len(e) = (IF variant = "wine" THEN 3 ELSE 2)
          /\ Len(f) = Len(e)
          /\ \A j \in 1..Len(e) :
                /\ Ok(e[j]) = encoding(
                      CASE variant = "iris" -> x1
                        [] variant = "wine" -> Slice(x1, 4 * (j - 1), 4 * j)
                        [] OTHER -> IF j = 1 THEN Slice(x1, 0, 4)
                                    ELSE SliceFrom(x1, 4))
                /\ Ok(f[j]) = encoding(
                      CASE variant = "iris" -> x2
                        [] variant = "wine" ->
                             Slice(IF j = 1 THEN x2 ELSE x1, 4 * (j - 1), 4 * j)
                        [] OTHER -> IF j = 1 THEN Slice(x2, 0, 4)
                                    ELSE SliceFrom(x2, 4))
          /\ frame.kron1
               = (IF variant = "wine" THEN kron(kron(e[1], e[2]), e[3])
                  ELSE dot(expm(entangle_gate), kron(e[1], e[2])))
          /\ frame.kron2
               = (IF variant = "wine" THEN kron(kron(f[1], f[2]), f[3])
                  ELSE dot(expm(entangle_gate), kron(f[1], f[2])))

\* a Seeds kernel call has returned whose chunk states differ, so that the
\* order of the factors matters
C22_Witness ==
    /\ Returns("kernel")
    /\ variant = "seeds"
    /\ result.err = ""
    /\ frame.enc1[1] # frame.enc1[2]
    /\ kron(frame.enc1[1], frame.enc1[2]) # kron(frame.enc1[2], frame.enc1[1])
    /\ Rows(frame.kron1) = 9

\* C23: in the notebooks that define them, LZ2 is diag(2, 0, -2) and LZZ2 is
\* the 9 x 9 diagonal matrix with diagonal (4, 0, -4, 0, 0, 0, -4, 0, 4).
C23_EntanglerValues ==
    variant # "wine"
    => /\ globals.LZ2 = <<<<R(2), NZero, NZero>>,
                          <<NZero, NZero, NZero>>,
                          <<NZero, NZero, R(-2)>>>>
       /\ Rows(globals.LZZ2) = 9
       /\ Cols(globals.LZZ2) = 9
       /\ \A i, j \in 1..9 :
             globals.LZZ2[i][j]
               = IF i = j
                 THEN <<R(4), NZero, R(-4), NZero, NZero, NZero, R(-4),
                        NZero, R(4)>>[i]
                 ELSE NZero

\* an Iris kernel call has used LZZ2
C23_Witness ==
    /\ Returns("kernel")
    /\ variant = "iris"
    /\ result.err = ""
    /\ globals.LZZ2[1][1] = R(4)
    /\ globals.LZZ2[7][7] = R(-4)
    /\ entangle_gate[9][9] = NMul(J, R(4))

\* C24: in the two-qutrit kernels the operator applied to both joint states
\* is the one matrix expm(1j*LZZ2) of the constant LZZ2, whatever x1 and x2
\* are; it is applied to the Kronecker product of the chunk states, and the
\* inner product is taken of the two states it yields.
C24_SameEntanglerBothStates ==
    (Returns("kernel") /\ variant # "wine" /\ frame.err = "")
    => \A U \in {expm(MScale(J, LZZ2))} :
          /\ frame.kron1 = dot(U, kron(frame.enc1[1], frame.enc1[2]))
          /\ frame.kron2 = dot(U, kron(frame.enc2[1], frame.enc2[2]))
          /\ frame.val
               = real(square(dot(T(conj(frame.kron1)), frame.kron2)))[1][1]

\* a Seeds kernel call for two different vectors has returned: the operator
\* has changed both Kronecker products
C24_Witness ==
    /\ Returns("kernel")
    /\ variant = "seeds"
    /\ frame.err = ""
    /\ call.args[1] # call.args[2]
    /\ frame.enc1 # frame.enc2
    /\ frame.kron1 # kron(frame.enc1[1], frame.enc1[2])
    /\ frame.kron2 # kron(frame.enc2[1], frame.enc2[2])
    /\ frame.kron1 = dot(expm(MScale(J, LZZ2)),
                         kron(frame.enc1[1], frame.enc1[2]))

\* C25: in Iris, Glass and Seeds kernel(x1, x2) is the value obtained with
\* the entangling operator left out: the real part of the square of
\* <a1|b1> * <a2|b2>, for the chunk states a1, a2 of x1 and b1, b2 of x2.
C25_EntanglerHasNoEffect ==
    (Returns("kernel") /\ variant # "wine" /\ result.err = "")
    => \A a \in {frame.enc1}, b \in {frame.enc2} :
          /\ result.val
               = real(square(<<<<NMul(overlap(a[1], b[1])[1][1],
                                      overlap(a[2], b[2])[1][1])>>>>))[1][1]
          /\ result.val
               = kernel_value(kron(a[1], a[2]), kron(b[1], b[2]))

\* a Glass kernel call has returned a value other than 0 and 1 for joint
\* states the operator has changed
C25_Witness ==
    /\ Returns("kernel")
    /\ variant = "glass"
    /\ result.err = ""
    /\ result.val # R(1)
    /\ result.val # NZero
    /\ frame.kron1 # kron(frame.enc1[1], frame.enc1[2])
    /\ frame.kron2 # kron(frame.enc2[1], frame.enc2[2])

\* C26: in the Wine variant the value of kernel(x1, x2) is determined by
\* features 0..3 of x1 and features 0..3 of x2: it is the real part of the
\* square of <e(x1[:4])|e(x2[:4])>, kernel(y1, y2) returns the same for every
\* y1 (of at least 12 features) and y2 with those first four features, and
\* the call returns even when x2 has fewer than 12 features.
C26_WineReadsFirstChunkOnly ==
    (Returns("kernel") /\ variant = "wine")
    => /\ result.err = ""
          <=> (Len(call.args[1]) >= 12 /\ Len(call.args[2]) >= 4)
       /\ result.err = ""
          => /\ \A a \in {encoding(Slice(call.args[1], 0, 4)).val},
                   b \in {encoding(Slice(call.args[2], 0, 4)).val} :
                   result.val = real(square(overlap(a, b)))[1][1]
             /\ \A y1, y2 \in KernelInputs :
                   (/\ Len(y1) >= 12
                    /\ Slice(y1, 0, 4) = Slice(call.args[1], 0, 4)
                    /\ Slice(y2, 0, 4) = Slice(call.args[2], 0, 4))
                   => kernel(y1, y2) = result

\* a Wine kernel call has returned a value other than 1 for an x2 of eight
\* features, and another input has the first four features of x1 and other
\* later features
C26_Witness ==
    /\ Returns("kernel")
    /\ variant = "wine"
    /\ result.err = ""
    /\ result.val # R(1)
    /\ Len(call.args[2]) = 8
    /\ \E y1 \in KernelInputs :
          /\ Len(y1) >= 12
          /\ y1 # call.args[1]
          /\ Slice(y1, 0, 4) = Slice(call.args[1], 0, 4)

\* C27: in the Iris variant both qutrits of a joint state are the encoding
\* of the whole argument, and kernel(x1, x2) is the real part of the fourth
\* power of <e(x1)|e(x2)>.
C27_IrisFourthPower ==
    (Returns("kernel") /\ variant = "iris" /\ result.err = "")
    => \A a \in {encoding(call.args[1]).val},
          b \in {encoding(call.args[2]).val} :
          /\ frame.enc1 = <<a, a>>
          /\ frame.enc2 = <<b, b>>
          /\ \A c \in {overlap(a, b)[1][1]} :
                result.val
                  = real(<<<<NMul(NMul(c, c), NMul(c, c))>>>>)[1][1]

\* an Iris kernel call has returned for an inner product <e(x1)|e(x2)> that
\* is not real, so that its second and fourth power differ
C27_Witness ==
    /\ Returns("kernel")
    /\ variant = "iris"
    /\ result.err = ""
    /\ \E c \in {overlap(frame.enc1[1], frame.enc2[1])[1][1]} :
          /\ c # NConj(c)
          /\ result.val # real(<<<<NMul(c, c)>>>>)[1][1]

\* C28: in the Glass and Seeds variants kernel(x1, x2) ends in the
\* IndexError of an encoding call, and returns no value, when x1 or x2 has
\* fewer than 8 features, and returns a real value when both have at least 8.
C28_ShortVectorRaises ==
    (Returns("kernel") /\ variant \in {"glass", "seeds"})
    => /\ (Len(call.args[1]) < 8 \/ Len(call.args[2]) < 8)
          => /\ result = Raise("IndexError")
             /\ \E x \in {call.args[1], call.args[2]} :
                   \/ encoding(Slice(x, 0, 4)) = Raise("IndexError")
                   \/ encoding(SliceFrom(x, 4)) = Raise("IndexError")
       /\ (Len(call.args[1]) >= 8 /\ Len(call.args[2]) >= 8)
          => /\ result.err = ""
             /\ is_real(result.val)

\* a Glass kernel call with a second argument of seven features has raised
\* IndexError, its first argument having eight
C28_Witness ==
    /\ Returns("kernel")
    /\ variant = "glass"
    /\ Len(call.args[1]) = 8
    /\ Len(call.args[2]) = 7
    /\ result = Raise("IndexError")

\* C29: whenever kernel returns, both joint states have norm 1 and the value
\* returned is a real number v with -1 <= v <= 1 (stated on bounds of v in
\* units of 1/10000).
C29_KernelInMinusOneOne ==
    (Returns("kernel") /\ result.err = "")
    => /\ overlap(frame.kron1, frame.kron1) = <<<<R(1)>>>>
       /\ overlap(frame.kron2, frame.kron2) = <<<<R(1)>>>>
       /\ is_real(result.val)
       /\ lower(result.val) >= -10000
       /\ upper(result.val) <= 10000

\* kernel has returned a value that is certainly negative
C29_Witness ==
    /\ Returns("kernel")
    /\ result.err = ""
    /\ is_real(result.val)
    /\ upper(result.val) < 0
    /\ lower(result.val) >= -10000

====
